---------------------------- MODULE Spec2Model ----------------------------
(***************************************************************************)
(* A model of the Metamath proof verifier mmverify.py (class toks, class   *)
(* FrameStack, class MM) and of the host calls made by proofgen.py.        *)
(*                                                                         *)
(* A token is a string.  A line of a source is the sequence of tokens      *)
(* line.split() yields, a file is the sequence of its unread lines.  An    *)
(* expression (a Python list of tokens) is a sequence of tokens.  A raised *)
(* Python exception is a record [cls, msg], msg being the fixed text of    *)
(* its message without the formatted arguments; NoErr stands for "no       *)
(* exception".                                                             *)
(***************************************************************************)
EXTENDS Integers, Sequences, FiniteSets, TLC

VARIABLES
    host,       \* the calls the host program still has to make
    pc,         \* where the session is: idle, reading, proving, error
    toks,       \* the toks instance of the running consume: lines_buf, tokbuf,
                \* imported_files, and the record of the source it was made
                \* from and of what it opened and delivered
    tok,        \* MM.read's local `tok`: the token about to be dispatched
    label,      \* MM.read's local `label`: the pending label, or None
    rstack,     \* the pending labels of the suspended outer MM.read invocations
    verify,     \* the verify argument of the running consume
    fs,         \* MM.fs: the frame stack
    labels,     \* MM.labels: the label table
    pf,         \* the latest MM.prove invocation: its caller, its arguments stat_label,
                \* stat and proof (tokens), the labels still to walk (proof), its stack
    ret,        \* what the last finished MM.prove returned to the host
    exc         \* the exception that left the last call, NoErr when none did

vars == <<host, pc, toks, tok, label, rstack, verify, fs, labels, pf, ret, exc>>

-----------------------------------------------------------------------------
(* Python values *)

None == "<None>"

\* None where a list of tokens is expected (the stat argument of MM.prove)
NoStat == <<None>>

NoErr == [cls |-> "none", msg |-> ""]

Exc(cls, msg) == [cls |-> cls, msg |-> msg]

MMError(msg) == Exc("MMError", msg)

MMKeyError(msg) == Exc("MMKeyError", msg)

\* except MMError catches MMError and its subclass MMKeyError
IsMMError(e) == e.cls \in {"MMError", "MMKeyError"}

Last(s) == s[Len(s)]

Front(s) == SubSeq(s, 1, Len(s) - 1)

Reverse(s) == [i \in 1..Len(s) |-> s[Len(s) + 1 - i]]

Range(s) == {s[i] : i \in 1..Len(s)}

RECURSIVE Concat(_)
Concat(ss) == IF ss = <<>> THEN <<>> ELSE Head(ss) \o Concat(Tail(ss))

\* list.index(x): the first position of x (1-based), 0 when x is not in the list
Index(s, x) ==
    IF x \in Range(s) THEN CHOOSE i \in 1..Len(s) : s[i] = x /\ \A j \in 1..(i-1) : s[j] # x
    ELSE 0

-----------------------------------------------------------------------------------------------------------------------------------------------------
(* The file system.  A path names a file; several paths may name the same  *)
(* file, and CanonicalPath gives the one canonical path of each.           *)

CanonicalPath(path) ==
    CASE path = "./a.mm" -> "a.mm"
      [] path = "sub/../b.mm" -> "b.mm"
      [] OTHER -> path

\* the lines of each file, by canonical path.  Each file holds, in a comment,
\* a token that no other source holds: "A.", "B.", "C.".
Files ==
    [x \in {"a.mm", "b.mm", "c.mm"} |->
        CASE x = "a.mm" -> << <<"$(", "A.", "$)">>, <<"$[", "b.mm", "$]">>,
                              <<"$c", "wff", "$.">> >>
          [] x = "b.mm" -> << <<"$(", "B.", "$)", "$[", "./a.mm", "$]", "$v", "p", "$.">>,
                              <<>>, <<"$[", "sub/../b.mm", "$]">> >>
          [] x = "c.mm" -> << <<"$(", "C.", "$)", "$v", "q", "$.">> >>]

\* a faulty os.path.realpath: the path as it is spelled
realpath_verbatim(filename) == filename

\* os.path.realpath
realpath(filename) == CanonicalPath(filename)

-----------------------------------------------------------------------------
(* class toks *)

\* toks.__init__(lines)
toks_init(lines) ==
    [lines_buf |-> <<lines>>, tokbuf |-> <<>>, imported_files |-> {},
     source |-> lines, opened |-> <<>>, delivered |-> <<>>]

\* what a toks method hands back: its return value, the instance afterwards,
\* and the exception it raised (NoErr when it returned)
Ret(val, t, e) == [val |-> val, t |-> t, exc |-> e]

\* toks.read
RECURSIVE read(_)
read(t) ==
    IF t.tokbuf # <<>>
    THEN Ret(Last(t.tokbuf),
             [t EXCEPT !.tokbuf = Front(@), !.delivered = Append(@, Last(t.tokbuf))],
             NoErr)
    ELSE IF t.lines_buf = <<>>
    THEN Ret(None, t, Exc("IndexError", "list index out of range"))
    ELSE LET file == Last(t.lines_buf) IN
         IF file = <<>>
         THEN \* readline() returned '': close the source, go on with the outer one
              LET t2 == [t EXCEPT !.lines_buf = Front(@)] IN
              IF t2.lines_buf = <<>> THEN Ret(None, t2, NoErr) ELSE read(t2)
         ELSE read([t EXCEPT !.lines_buf[Len(t.lines_buf)] = Tail(file),
                             !.tokbuf = Reverse(Head(file))])

\* lines 92-94 of toks.readf: open the file unless it was imported before.
\* open() follows the path to the file it names, whatever the spelling.
include(t, filename) ==
    IF filename \in t.imported_files THEN Ret(None, t, NoErr)
    ELSE IF CanonicalPath(filename) \notin DOMAIN Files
    THEN Ret(None, t, Exc("FileNotFoundError", filename))
    ELSE Ret(None,
             [t EXCEPT !.lines_buf = Append(@, Files[CanonicalPath(filename)]),
                       !.imported_files = @ \cup {filename},
                       !.opened = Append(@, CanonicalPath(filename))],
             NoErr)

\* toks.readf.  readf_loop is the loop test on the token r just read; the
\* three operators after it are the loop body, each taking what the read or
\* the open before it produced
RECURSIVE readf_loop(_), readf_filename(_), readf_endbracket(_, _), readf_include(_)

readf_loop(r) ==
    IF r.exc # NoErr \/ r.val # "$[" THEN r ELSE readf_filename(read(r.t))

readf_filename(filename) ==
    IF filename.exc # NoErr THEN filename
    ELSE readf_endbracket(filename, read(filename.t))

readf_endbracket(filename, endbracket) ==
    IF endbracket.exc # NoErr THEN endbracket
    ELSE IF endbracket.val # "$]"
    THEN Ret(None, endbracket.t, MMError("Inclusion command not terminated"))
    ELSE readf_include(include(endbracket.t, realpath(filename.val)))

readf_include(inc) ==
    IF inc.exc # NoErr THEN inc ELSE readf_loop(read(inc.t))

readf(t) == readf_loop(read(t))

\* toks.readc.  skip_comment is its inner loop `while tok != '$)': tok =
\* self.read()`; the _on operators take the token just read
RECURSIVE skip_comment(_), skip_comment_on(_), readc(_), readc_on(_), readc_skipped(_)

skip_comment(t) == skip_comment_on(read(t))

skip_comment_on(r) ==
    IF r.exc # NoErr \/ r.val = "$)" THEN r ELSE skip_comment(r.t)

readc(t) == readc_on(readf(t))

readc_on(r) ==
    IF r.exc # NoErr \/ r.val = None THEN r
    ELSE IF r.val = "$(" THEN readc_skipped(skip_comment(r.t))
    ELSE r

readc_skipped(c) == IF c.exc # NoErr THEN c ELSE readc(c.t)

\* toks.readstat, with the statement read so far
RECURSIVE readstat_loop(_, _), readstat_on(_, _)

readstat_loop(t, stat) == readstat_on(readc(t), stat)

readstat_on(r, stat) ==
    IF r.exc # NoErr THEN Ret(stat, r.t, r.exc)
    ELSE IF r.val = "$." THEN Ret(stat, r.t, NoErr)
    ELSE IF r.val = None THEN Ret(stat, r.t, MMError("EOF before $."))
    ELSE readstat_loop(r.t, Append(stat, r.val))

readstat(t) == readstat_loop(t, <<>>)

-----------------------------------------------------------------------------
(* class Frame, class FrameStack *)

\* Python orders strings by code point; the tokens the model's sources hold,
\* in that order
StrOrder == <<"$.", "(", ")", "p", "q", "r", "wff", "|-">>

StrLess(x, y) ==
    \E i, j \in 1..Len(StrOrder) : StrOrder[i] = x /\ StrOrder[j] = y /\ i < j

min(x, y) == IF StrLess(y, x) THEN y ELSE x

max(x, y) == IF StrLess(y, x) THEN x ELSE y

\* Frame.__init__
Frame ==
    [c |-> {}, v |-> {}, d |-> {}, f |-> <<>>, f_labels |-> <<>>,
     e |-> <<>>, e_labels |-> <<>>]

\* dict[key] = value
DictSet(dict, key, value) ==
    [k \in DOMAIN dict \cup {key} |-> IF k = key THEN value ELSE dict[k]]

\* what a FrameStack method hands back: its return value, the frame stack
\* afterwards, and the exception it raised
FRet(val, s, e) == [val |-> val, fs |-> s, exc |-> e]

\* FrameStack.push
push(s) == Append(s, Frame)

\* FrameStack.add_c
add_c(s, t) ==
    LET frame == Last(s) IN
    IF t \in frame.c THEN FRet(None, s, MMError("const already defined in scope"))
    ELSE IF t \in frame.v
    THEN FRet(None, s, MMError("const already defined as var in scope"))
    ELSE FRet(None, [s EXCEPT ![Len(s)].c = @ \cup {t}], NoErr)

\* a faulty FrameStack.add_v: the constants of the frame are not looked at
add_v_unchecked(s, t) ==
    LET frame == Last(s) IN
    IF t \in frame.v THEN FRet(None, s, MMError("var already defined in scope"))
    ELSE FRet(None, [s EXCEPT ![Len(s)].v = @ \cup {t}], NoErr)

\* FrameStack.add_v
add_v(s, t) ==
    LET frame == Last(s) IN
    IF t \in frame.v THEN FRet(None, s, MMError("var already defined in scope"))
    ELSE IF t \in frame.c
    THEN FRet(None, s, MMError("var already defined as const in scope"))
    ELSE FRet(None, [s EXCEPT ![Len(s)].v = @ \cup {t}], NoErr)

\* FrameStack.lookup_c
lookup_c(s, t) == \E i \in 1..Len(s) : t \in s[i].c

\* FrameStack.lookup_v
lookup_v(s, t) == \E i \in 1..Len(s) : t \in s[i].v

\* FrameStack.add_f
add_f(s, var, kind, lbl) ==
    IF ~lookup_v(s, var) THEN FRet(None, s, MMError("var in $f not defined"))
    ELSE IF ~lookup_c(s, kind) THEN FRet(None, s, MMError("const in $f not defined"))
    ELSE IF var \in DOMAIN Last(s).f_labels
    THEN FRet(None, s, MMError("var in $f already defined in scope"))
    ELSE FRet(None,
              [s EXCEPT ![Len(s)].f = Append(@, <<var, kind>>),
                        ![Len(s)].f_labels = DictSet(@, var, lbl)],
              NoErr)

\* FrameStack.add_e
add_e(s, stat, lbl) ==
    FRet(None,
         [s EXCEPT ![Len(s)].e = Append(@, stat),
                   ![Len(s)].e_labels = DictSet(@, stat, lbl)],
         NoErr)

\* FrameStack.add_d
add_d(s, stat) ==
    FRet(None,
         [s EXCEPT ![Len(s)].d =
             @ \cup {<<min(stat[i], stat[j]), max(stat[i], stat[j])>> :
                        <<i, j>> \in {ij \in (1..Len(stat)) \X (1..Len(stat)) :
                                         stat[ij[1]] # stat[ij[2]]}}],
         NoErr)

\* FrameStack.lookup_f: the innermost frame that has the variable wins
lookup_f(s, var) ==
    LET hits == {i \in 1..Len(s) : var \in DOMAIN s[i].f_labels} IN
    IF hits = {} THEN FRet(None, s, MMKeyError(var))
    ELSE FRet(s[CHOOSE i \in hits : \A j \in hits : j <= i].f_labels[var], s, NoErr)

\* a faulty FrameStack.lookup_d: the pair is looked up as given, not as
\* (min, max)
lookup_d_as_given(s, x, y) == \E i \in 1..Len(s) : <<x, y>> \in s[i].d

\* FrameStack.lookup_d
lookup_d(s, x, y) == \E i \in 1..Len(s) : <<min(x, y), max(x, y)>> \in s[i].d

\* FrameStack.lookup_e
lookup_e(s, stmt) ==
    LET hits == {i \in 1..Len(s) : stmt \in DOMAIN s[i].e_labels} IN
    IF hits = {} THEN FRet(None, s, MMKeyError("stmt"))
    ELSE FRet(s[CHOOSE i \in hits : \A j \in hits : j <= i].e_labels[stmt], s, NoErr)

\* a faulty loop of make_assertion: append where the code has appendleft
RECURSIVE f_hyps_loop_append(_, _, _)
f_hyps_loop_append(todo, mand_vars, f_hyps) ==
    IF todo = <<>> THEN f_hyps
    ELSE LET v == Head(todo)[1]
             k == Head(todo)[2]
         IN  IF v \in mand_vars
             THEN f_hyps_loop_append(Tail(todo), mand_vars \ {v}, f_hyps \o <<<<k, v>>>>)
             ELSE f_hyps_loop_append(Tail(todo), mand_vars, f_hyps)

\* the loop of make_assertion over reversed(self) and reversed(fr.f): `todo` is
\* what is left of that walk, innermost and latest first
RECURSIVE f_hyps_loop(_, _, _)
f_hyps_loop(todo, mand_vars, f_hyps) ==
    IF todo = <<>> THEN f_hyps
    ELSE LET v == Head(todo)[1]
             k == Head(todo)[2]
         IN  IF v \in mand_vars
             THEN f_hyps_loop(Tail(todo), mand_vars \ {v}, <<<<k, v>>>> \o f_hyps)
             ELSE f_hyps_loop(Tail(todo), mand_vars, f_hyps)

\* a faulty FrameStack.make_assertion: the variables it has found a floating
\* hypothesis for are removed from the active frame, not from mand_vars
make_assertion_removing(s, stat) ==
    IF s = <<>> THEN FRet(None, s, Exc("IndexError", "list index out of range"))
    ELSE IF stat = NoStat THEN FRet(None, s, Exc("TypeError", "NoneType is not iterable"))
    ELSE LET e_hyps == Concat([i \in 1..Len(s) |-> s[i].e])
             mand_vars == {t \in UNION {Range(hyp) : hyp \in Range(e_hyps) \cup {stat}} :
                             lookup_v(s, t)}
             dvs == UNION {s[i].d \cap (mand_vars \X mand_vars) : i \in 1..Len(s)}
             f_hyps == f_hyps_loop(Reverse(Concat([i \in 1..Len(s) |-> s[i].f])),
                                   mand_vars, <<>>)
         IN  FRet([dvs |-> dvs, f_hyps |-> f_hyps, e_hyps |-> e_hyps, stat |-> stat],
                  [s EXCEPT ![Len(s)].v = @ \ {h[2] : h \in Range(f_hyps)}], NoErr)

\* FrameStack.make_assertion
make_assertion(s, stat) ==
    IF s = <<>> THEN FRet(None, s, Exc("IndexError", "list index out of range"))
    ELSE IF stat = NoStat THEN FRet(None, s, Exc("TypeError", "NoneType is not iterable"))
    ELSE LET e_hyps == Concat([i \in 1..Len(s) |-> s[i].e])
             mand_vars == {t \in UNION {Range(hyp) : hyp \in Range(e_hyps) \cup {stat}} :
                             lookup_v(s, t)}
             dvs == UNION {s[i].d \cap (mand_vars \X mand_vars) : i \in 1..Len(s)}
             f_hyps == f_hyps_loop(Reverse(Concat([i \in 1..Len(s) |-> s[i].f])),
                                   mand_vars, <<>>)
         IN  FRet([dvs |-> dvs, f_hyps |-> f_hyps, e_hyps |-> e_hyps, stat |-> stat],
                  s, NoErr)

-----------------------------------------------------------------------------
(* class MM: the label table, substitution, compressed proofs *)

\* An entry of MM.labels is the pair (typ, dat).  For '$a' and '$p' dat is
\* the 4-tuple make_assertion returns; for '$f' and '$e' it is an expression,
\* kept in the stat field of a record of the same shape.
Entry(typ, dat) == [typ |-> typ, dat |-> dat]

HypDat(stat) == [dvs |-> {}, f_hyps |-> <<>>, e_hyps |-> <<>>, stat |-> stat]

\* what an MM method hands back: its return value, MM.fs and MM.labels
\* afterwards, and the exception it raised
MRet(val, s, tbl, e) == [val |-> val, fs |-> s, labels |-> tbl, exc |-> e]

\* MM.apply_subst
apply_subst(stat, subst) ==
    Concat([i \in 1..Len(stat) |->
              IF stat[i] \in DOMAIN subst THEN subst[stat[i]] ELSE <<stat[i]>>])

\* MM.find_vars
RECURSIVE find_vars_loop(_, _, _)
find_vars_loop(s, stat, vs) ==
    IF stat = <<>> THEN vs
    ELSE LET x == Head(stat) IN
         IF x \notin Range(vs) /\ lookup_v(s, x)
         THEN find_vars_loop(s, Tail(stat), Append(vs, x))
         ELSE find_vars_loop(s, Tail(stat), vs)

find_vars(s, stat) == find_vars_loop(s, stat, <<>>)

\* the characters of a token of the compressed part of a proof
chars(t) ==
    CASE t = "UA" -> <<"U", "A">>
      [] t = "BZ" -> <<"B", "Z">>
      [] OTHER -> <<t>>

LowDigits == <<"A", "B", "C", "D", "E", "F", "G", "H", "I", "J",
               "K", "L", "M", "N", "O", "P", "Q", "R", "S", "T">>

HighDigits == <<"U", "V", "W", "X", "Y">>

\* the first loop of decompress_proof: letters to integers
RECURSIVE proof_ints_loop(_, _, _)
proof_ints_loop(compressed_proof, cur_int, proof_ints) ==
    IF compressed_proof = <<>> THEN proof_ints
    ELSE LET ch == Head(compressed_proof)
             rest == Tail(compressed_proof)
         IN  IF ch = "Z" THEN proof_ints_loop(rest, cur_int, Append(proof_ints, -1))
             ELSE IF ch \in Range(LowDigits)
             THEN proof_ints_loop(rest, 0,
                      Append(proof_ints, 20 * cur_int + Index(LowDigits, ch) - 1))
             ELSE IF ch \in Range(HighDigits)
             THEN proof_ints_loop(rest, 5 * cur_int + Index(HighDigits, ch), proof_ints)
             ELSE proof_ints_loop(rest, cur_int, proof_ints)

\* a faulty prev_proofs[-n:]: the last subproof alone
LastN_one(s, n) == IF s = <<>> THEN s ELSE <<Last(s)>>

\* Python slices prev_proofs[-n:] and prev_proofs[:-n] for n > 0
LastN(s, n) == IF n >= Len(s) THEN s ELSE SubSeq(s, Len(s) - n + 1, Len(s))

ButLastN(s, n) == IF n >= Len(s) THEN <<>> ELSE SubSeq(s, 1, Len(s) - n)

\* the second loop of decompress_proof: integers to label indexes.  st holds
\* decompressed_ints, subproofs and prev_proofs; lbls is the local list `labels`
RECURSIVE expand_loop(_, _, _, _, _)
expand_loop(tbl, lbls, hyp_end, proof_ints, st) ==
    IF proof_ints = <<>> THEN [val |-> st.decompressed_ints, exc |-> NoErr]
    ELSE
    LET pf_int == Head(proof_ints)
        rest == Tail(proof_ints)
        label_end == Len(lbls)
    IN  IF pf_int = -1
        THEN IF st.prev_proofs = <<>>
             THEN [val |-> <<>>, exc |-> Exc("IndexError", "list index out of range")]
             ELSE expand_loop(tbl, lbls, hyp_end, rest,
                      [st EXCEPT !.subproofs = Append(@, Last(st.prev_proofs))])
        ELSE IF pf_int < hyp_end
        THEN expand_loop(tbl, lbls, hyp_end, rest,
                 [st EXCEPT !.prev_proofs = Append(@, <<pf_int>>),
                            !.decompressed_ints = Append(@, pf_int)])
        ELSE IF pf_int < label_end
        THEN IF lbls[pf_int + 1] \notin DOMAIN tbl
             THEN [val |-> <<>>, exc |-> Exc("KeyError", lbls[pf_int + 1])]
             ELSE
             LET step == tbl[lbls[pf_int + 1]]
                 nshyps == Len(step.dat.e_hyps) + Len(step.dat.f_hyps)
                 new_prevpf ==
                     IF step.typ \in {"$a", "$p"} /\ nshyps # 0
                     THEN Concat(LastN(st.prev_proofs, nshyps)) \o <<pf_int>>
                     ELSE <<pf_int>>
                 kept ==
                     IF step.typ \in {"$a", "$p"} /\ nshyps # 0
                     THEN ButLastN(st.prev_proofs, nshyps)
                     ELSE st.prev_proofs
             IN  expand_loop(tbl, lbls, hyp_end, rest,
                     [st EXCEPT !.decompressed_ints = Append(@, pf_int),
                                !.prev_proofs = Append(kept, new_prevpf)])
        ELSE IF pf_int - label_end >= Len(st.subproofs)
        THEN [val |-> <<>>, exc |-> Exc("IndexError", "list index out of range")]
        ELSE LET subpf == st.subproofs[pf_int - label_end + 1] IN
             expand_loop(tbl, lbls, hyp_end, rest,
                 [st EXCEPT !.decompressed_ints = @ \o subpf,
                            !.prev_proofs = Append(@, subpf)])

\* MM.decompress_proof: the part after the line `ep = proof.index(')')`
decompress_expand(ma, tbl, lbls, proof, ep, ex) ==
    IF ex.exc # NoErr THEN MRet(<<>>, ma.fs, tbl, ex.exc)
    ELSE MRet([i \in 1..Len(ex.val) |-> lbls[ex.val[i] + 1]], ma.fs, tbl, NoErr)

decompress_labels(ma, tbl, lbls, hyp_end, proof, ep) ==
    decompress_expand(ma, tbl, lbls, proof, ep,
        expand_loop(tbl, lbls, hyp_end,
            proof_ints_loop(Concat([i \in 1..(Len(proof) - ep) |-> chars(proof[ep + i])]),
                            0, <<>>),
            [decompressed_ints |-> <<>>, subproofs |-> <<>>, prev_proofs |-> <<>>]))

\* MM.decompress_proof: the part after the call of make_assertion
decompress_on(ma, tbl, proof, ep) ==
    IF ma.exc # NoErr THEN MRet(<<>>, ma.fs, tbl, ma.exc)
    ELSE IF ep = 0 THEN MRet(<<>>, ma.fs, tbl, Exc("ValueError", "')' is not in list"))
    ELSE decompress_labels(ma, tbl,
             [i \in 1..Len(ma.val.f_hyps) |-> lookup_f(ma.fs, ma.val.f_hyps[i][2]).val]
                 \o [i \in 1..Len(ma.val.e_hyps) |-> lookup_e(ma.fs, ma.val.e_hyps[i]).val]
                 \o SubSeq(proof, 2, ep - 1),
             Len(ma.val.f_hyps) + Len(ma.val.e_hyps),
             proof, ep)

\* MM.decompress_proof
decompress_proof(s, tbl, stat, proof) ==
    decompress_on(make_assertion(s, stat), tbl, proof, Index(proof, ")"))

-----------------------------------------------------------------------------
(* MM.prove *)

\* the start of MM.prove, up to the loop over the proof: the label sequence
\* the loop will walk
prove_begin(s, tbl, stat, proof) ==
    IF proof = <<>> THEN MRet(<<>>, s, tbl, Exc("IndexError", "list index out of range"))
    ELSE IF proof[1] = "(" THEN decompress_proof(s, tbl, stat, proof)
    ELSE MRet(proof, s, tbl, NoErr)

\* a faulty substitution of MM.prove: the whole stack entry, typecode and all
subst_of_entry(mand_var, stack, sp) ==
    [v \in {mand_var[i][2] : i \in 1..Len(mand_var)} |->
        stack[sp + (CHOOSE i \in 1..Len(mand_var) : mand_var[i][2] = v)]]

\* the substitution MM.prove builds from the stack entries at sp+1 .. sp+|mand_var|
subst_of(mand_var, stack, sp) ==
    [v \in {mand_var[i][2] : i \in 1..Len(mand_var)} |->
        Tail(stack[sp + (CHOOSE i \in 1..Len(mand_var) : mand_var[i][2] = v)])]

\* the exception the check of one pair of `distinct` raises, NoErr when it passes
distinct_exc(s, subst, xy) ==
    IF xy[1] \notin DOMAIN subst THEN Exc("KeyError", xy[1])
    ELSE IF xy[2] \notin DOMAIN subst THEN Exc("KeyError", xy[2])
    ELSE LET x_vars == find_vars(s, subst[xy[1]])
             y_vars == find_vars(s, subst[xy[2]])
         IN  IF \E i \in 1..Len(x_vars), j \in 1..Len(y_vars) :
                    x_vars[i] = y_vars[j] \/ ~lookup_d(s, x_vars[i], y_vars[j])
             THEN MMError("disjoint violation")
             ELSE NoErr

\* what one iteration of the loop of MM.prove hands back: the stack afterwards,
\* MM.fs and MM.labels afterwards, and the exceptions it may raise ({} when it
\* completes; more than one when the outcome depends on the order in which
\* Python iterates the set `distinct`)
SRet(stack, s, tbl, excs) == [stack |-> stack, fs |-> s, labels |-> tbl, excs |-> excs]

\* the branch of the loop of MM.prove for a label of an '$a' or '$p'
prove_assertion(s, tbl, stack, stepdat) ==
    LET distinct == stepdat.dvs
        mand_var == stepdat.f_hyps
        hyp == stepdat.e_hyps
        result == stepdat.stat
        npop == Len(mand_var) + Len(hyp)
        sp == Len(stack) - npop
    IN  IF sp < 0 THEN SRet(stack, s, tbl, {MMError("stack underflow")})
        ELSE
        LET bad_mand == {i \in 1..Len(mand_var) :
                            \/ stack[sp + i] = <<>>
                            \/ stack[sp + i][1] # mand_var[i][1]}
            first_bad == CHOOSE i \in bad_mand : \A j \in bad_mand : i <= j
            subst == subst_of(mand_var, stack, sp)
            dv_excs == {distinct_exc(s, subst, xy) : xy \in distinct} \ {NoErr}
            sp2 == sp + Len(mand_var)
        IN  IF bad_mand # {}
            THEN SRet(stack, s, tbl,
                      {IF stack[sp + first_bad] = <<>>
                       THEN Exc("IndexError", "list index out of range")
                       ELSE MMError("stack entry doesn't match mandatory var hyp")})
            ELSE IF dv_excs # {} THEN SRet(stack, s, tbl, dv_excs)
            ELSE IF \E j \in 1..Len(hyp) : stack[sp2 + j] # apply_subst(hyp[j], subst)
            THEN SRet(stack, s, tbl, {MMError("stack entry doesn't match hypothesis")})
            ELSE SRet(Append(SubSeq(stack, 1, sp), apply_subst(result, subst)),
                      s, tbl, {})

\* one iteration of `for label in proof` of MM.prove
prove_step(s, tbl, stack, lbl) ==
    IF lbl \notin DOMAIN tbl THEN SRet(stack, s, tbl, {Exc("KeyError", lbl)})
    ELSE LET steptyp == tbl[lbl].typ
             stepdat == tbl[lbl].dat
         IN  IF steptyp \in {"$a", "$p"} THEN prove_assertion(s, tbl, stack, stepdat)
             ELSE SRet(Append(stack, stepdat.stat), s, tbl, {})

\* a faulty end of MM.prove: the top of the stack, whatever lies under it
prove_end_top(s, tbl, stack) ==
    IF stack = <<>> THEN MRet(<<>>, s, tbl, MMError("stack has >1 entry at end"))
    ELSE MRet(stack[Len(stack)], s, tbl, NoErr)

\* the end of MM.prove, after the loop
prove_end(s, tbl, stack) ==
    IF Len(stack) # 1 THEN MRet(<<>>, s, tbl, MMError("stack has >1 entry at end"))
    ELSE MRet(stack[1], s, tbl, NoErr)

\* a faulty MM.verify: the comparison left out
verify_end_unchecked(stat, result) == NoErr

\* MM.verify, from the point where MM.prove has returned result
verify_end(stat, result) ==
    IF result # stat THEN MMError("assertion proved doesn't match") ELSE NoErr

-----------------------------------------------------------------------------
(* The session: MM.consume, MM.read, MM.verify, and the host's calls *)

\* the tokens that begin with '$'
Dollar == {"$c", "$v", "$f", "$e", "$a", "$p", "$d", "${", "$}", "$.", "$=",
           "$(", "$)", "$[", "$]", "$x"}

NoProof == [caller |-> "none", stat_label |-> None, stat |-> <<>>, tokens |-> <<>>,
            proof |-> <<>>, stack |-> <<>>]

\* an exception leaves MM.read (and so MM.consume): nothing catches it
Raise(t, e) ==
    /\ toks' = t
    /\ pc' = "error"
    /\ exc' = e
    /\ UNCHANGED tok

\* line 441 of MM.read, `tok = toks.readc()`, and back to the loop test
ReadNext_on(r) ==
    IF r.exc # NoErr THEN Raise(r.t, r.exc)
    ELSE /\ toks' = r.t
         /\ tok' = r.val
         /\ pc' = "reading"
         /\ UNCHANGED exc

ReadNext(t) == ReadNext_on(readc(t))

\* `for tok in stat: self.fs.add_c(tok)`, stopping at the first exception
RECURSIVE add_c_all(_, _), add_c_next(_, _)

add_c_all(s, stat) ==
    IF stat = <<>> THEN FRet(None, s, NoErr) ELSE add_c_next(add_c(s, Head(stat)), Tail(stat))

add_c_next(r, rest) == IF r.exc # NoErr THEN r ELSE add_c_all(r.fs, rest)

\* `for tok in stat: self.fs.add_v(tok)`, stopping at the first exception
RECURSIVE add_v_all(_, _), add_v_next(_, _)

add_v_all(s, stat) ==
    IF stat = <<>> THEN FRet(None, s, NoErr) ELSE add_v_next(add_v(s, Head(stat)), Tail(stat))

add_v_next(r, rest) == IF r.exc # NoErr THEN r ELSE add_v_all(r.fs, rest)

\* MM.consume(thing, verify) called by the host: MM.read up to its loop
Consume ==
    /\ pc = "idle"
    /\ host # <<>>
    /\ Head(host).op = "consume"
    /\ host' = Tail(host)
    /\ verify' = Head(host).verify
    /\ fs' = push(fs)
    /\ label' = None
    /\ rstack' = <<>>
    /\ ReadNext(toks_init(Head(host).src))
    /\ UNCHANGED <<labels, pf, ret>>

\* a FrameStack method has been called with the statement read up to position t
\* of the source: its exception leaves MM.read, else on to the next token
Added(t, r) ==
    /\ fs' = r.fs
    /\ IF r.exc # NoErr THEN Raise(t, r.exc) ELSE ReadNext(t)

\* the '$c' branch of MM.read, rs being what toks.readstat handed back
Read_c_on(rs) ==
    IF rs.exc # NoErr THEN Raise(rs.t, rs.exc) /\ UNCHANGED fs
    ELSE Added(rs.t, add_c_all(fs, rs.val))

Read_c ==
    /\ pc = "reading"
    /\ tok = "$c"
    /\ Read_c_on(readstat(toks))
    /\ UNCHANGED <<host, label, rstack, verify, labels, pf, ret>>

\* the '$v' branch of MM.read
Read_v_on(rs) ==
    IF rs.exc # NoErr THEN Raise(rs.t, rs.exc) /\ UNCHANGED fs
    ELSE Added(rs.t, add_v_all(fs, rs.val))

Read_v ==
    /\ pc = "reading"
    /\ tok = "$v"
    /\ Read_v_on(readstat(toks))
    /\ UNCHANGED <<host, label, rstack, verify, labels, pf, ret>>

\* the '$d' branch of MM.read
Read_d_on(rs) ==
    IF rs.exc # NoErr THEN Raise(rs.t, rs.exc) /\ UNCHANGED fs
    ELSE Added(rs.t, add_d(fs, rs.val))

Read_d ==
    /\ pc = "reading"
    /\ tok = "$d"
    /\ Read_d_on(readstat(toks))
    /\ UNCHANGED <<host, label, rstack, verify, labels, pf, ret>>

\* `self.labels[label] = (typ, dat); label = None` and on to the next token,
\* tbl being self.labels and r what the FrameStack method called for the
\* statement handed back
Record(t, tbl, lbl, typ, dat, r) ==
    IF r.exc # NoErr
    THEN Raise(t, r.exc) /\ fs' = r.fs /\ labels' = tbl /\ UNCHANGED label
    ELSE /\ fs' = r.fs
         /\ labels' = DictSet(tbl, lbl, Entry(typ, dat))
         /\ label' = None
         /\ ReadNext(t)

\* the '$f' branch of MM.read
Read_f_on(rs) ==
    IF rs.exc # NoErr
    THEN Raise(rs.t, rs.exc) /\ UNCHANGED <<fs, labels, label>>
    ELSE IF label = None
    THEN Raise(rs.t, MMError("$f must have label")) /\ UNCHANGED <<fs, labels, label>>
    ELSE IF Len(rs.val) # 2
    THEN Raise(rs.t, MMError("$f must have be length 2")) /\ UNCHANGED <<fs, labels, label>>
    ELSE Record(rs.t, labels, label, "$f", HypDat(<<rs.val[1], rs.val[2]>>),
                add_f(fs, rs.val[2], rs.val[1], label))

Read_f ==
    /\ pc = "reading"
    /\ tok = "$f"
    /\ Read_f_on(readstat(toks))
    /\ UNCHANGED <<host, rstack, verify, pf, ret>>

\* `self.labels[label] = (typ, self.fs.make_assertion(stat)); label = None`
RecordAssertion(t, tbl, lbl, typ, ma) == Record(t, tbl, lbl, typ, ma.val, ma)

\* the '$a' branch of MM.read
Read_a_on(rs) ==
    IF rs.exc # NoErr
    THEN Raise(rs.t, rs.exc) /\ UNCHANGED <<fs, labels, label>>
    ELSE RecordAssertion(rs.t, labels, label, "$a", make_assertion(fs, rs.val))

Read_a ==
    /\ pc = "reading"
    /\ tok = "$a"
    /\ IF label = None
       THEN Raise(toks, MMError("$a must have label")) /\ UNCHANGED <<fs, labels, label>>
       ELSE Read_a_on(readstat(toks))
    /\ UNCHANGED <<host, rstack, verify, pf, ret>>

\* the '$e' branch of MM.read
Read_e_on(rs) ==
    IF rs.exc # NoErr
    THEN Raise(rs.t, rs.exc) /\ UNCHANGED <<fs, labels, label>>
    ELSE Record(rs.t, labels, label, "$e", HypDat(rs.val), add_e(fs, rs.val, label))

Read_e ==
    /\ pc = "reading"
    /\ tok = "$e"
    /\ IF label = None
       THEN Raise(toks, MMError("$e must have label")) /\ UNCHANGED <<fs, labels, label>>
       ELSE Read_e_on(readstat(toks))
    /\ UNCHANGED <<host, rstack, verify, pf, ret>>

\* the '${' branch of MM.read: the nested MM.read up to its loop
Read_open ==
    /\ pc = "reading"
    /\ tok = "${"
    /\ rstack' = Append(rstack, label)
    /\ fs' = push(fs)
    /\ label' = None
    /\ ReadNext(toks)
    /\ UNCHANGED <<host, verify, labels, pf, ret>>

\* the branch of MM.read for a token that does not begin with '$'
Read_label ==
    /\ pc = "reading"
    /\ tok \notin Dollar \cup {None}
    /\ label' = tok
    /\ ReadNext(toks)
    /\ UNCHANGED <<host, rstack, verify, fs, labels, pf, ret>>

\* the last branch of MM.read: print('tok:', tok)
Read_other ==
    /\ pc = "reading"
    /\ tok \in Dollar \ {"$c", "$v", "$f", "$a", "$e", "$p", "$d", "${", "$}"}
    /\ ReadNext(toks)
    /\ UNCHANGED <<host, label, rstack, verify, fs, labels, pf, ret>>

\* MM.read leaves its loop on None or '$}': self.fs.pop() and return, to the
\* '${' branch of the outer MM.read (which goes on at line 441) or to the host
Read_return ==
    /\ pc = "reading"
    /\ tok \in {None, "$}"}
    /\ fs' = Front(fs)
    /\ IF rstack # <<>>
       THEN /\ rstack' = Front(rstack)
            /\ label' = Last(rstack)
            /\ ReadNext(toks)
       ELSE /\ pc' = "idle"
            /\ UNCHANGED <<rstack, label, toks, tok, exc>>
    /\ UNCHANGED <<host, verify, labels, pf, ret>>

\* the end of the '$p' branch of MM.read, from line 434: record the theorem
FinishP(t, s, tbl, stat_label, stat) ==
    RecordAssertion(t, tbl, stat_label, "$p", make_assertion(s, stat))

\* self.verify(label, stat, proof) in the '$p' branch, pb being what the start
\* of MM.prove handed back: on to the loop of MM.prove
Read_p_verify(t, stat, proof, pb) ==
    /\ fs' = pb.fs
    /\ labels' = pb.labels
    /\ pf' = [caller |-> "verify", stat_label |-> label, stat |-> stat,
              tokens |-> proof, proof |-> pb.val, stack |-> <<>>]
    /\ UNCHANGED label
    /\ IF pb.exc # NoErr THEN Raise(t, pb.exc)
       ELSE /\ pc' = "proving"
            /\ toks' = t
            /\ UNCHANGED <<tok, exc>>

\* a faulty '$p' branch of MM.read: the proof is verified whatever `verify` says
Read_p_split_always(t, stat, i) ==
    IF i = 0
    THEN Raise(t, MMError("$p must contain proof after $="))
         /\ UNCHANGED <<fs, labels, label, pf>>
    ELSE Read_p_verify(t, SubSeq(stat, 1, i - 1), SubSeq(stat, i + 1, Len(stat)),
             prove_begin(fs, labels, SubSeq(stat, 1, i - 1), SubSeq(stat, i + 1, Len(stat))))

\* the '$p' branch of MM.read after `stat.index('$=')` gave i (0: not found)
Read_p_split(t, stat, i) ==
    IF i = 0
    THEN Raise(t, MMError("$p must contain proof after $="))
         /\ UNCHANGED <<fs, labels, label, pf>>
    ELSE IF ~verify
    THEN FinishP(t, fs, labels, label, SubSeq(stat, 1, i - 1)) /\ UNCHANGED pf
    ELSE Read_p_verify(t, SubSeq(stat, 1, i - 1), SubSeq(stat, i + 1, Len(stat)),
             prove_begin(fs, labels, SubSeq(stat, 1, i - 1), SubSeq(stat, i + 1, Len(stat))))

Read_p_on(rs) ==
    IF rs.exc # NoErr THEN Raise(rs.t, rs.exc) /\ UNCHANGED <<fs, labels, label, pf>>
    ELSE Read_p_split(rs.t, rs.val, Index(rs.val, "$="))

\* the '$p' branch of MM.read; with verify, up to the loop of MM.prove
Read_p ==
    /\ pc = "reading"
    /\ tok = "$p"
    /\ IF label = None
       THEN Raise(toks, MMError("$p must have label")) /\ UNCHANGED <<fs, labels, label, pf>>
       ELSE Read_p_on(readstat(toks))
    /\ UNCHANGED <<host, rstack, verify, ret>>

\* how an exception e of MM.prove ends: the host (proofgen.py lines 69-75)
\* catches MMError and goes on; MM.read catches nothing
Thrown(caller, e) == IF caller = "host" /\ IsMMError(e) THEN "idle" ELSE "error"

Host_prove_on(call, pb) ==
    /\ fs' = pb.fs
    /\ labels' = pb.labels
    /\ pf' = [caller |-> "host", stat_label |-> call.stat_label, stat |-> call.stat,
              tokens |-> call.proof, proof |-> pb.val, stack |-> <<>>]
    /\ exc' = pb.exc
    /\ pc' = IF pb.exc = NoErr THEN "proving" ELSE Thrown("host", pb.exc)

\* mm.prove(label, stat, proof) called by the host (proofgen.py line 70), up to
\* the loop of MM.prove
Host_prove ==
    /\ pc = "idle"
    /\ host # <<>>
    /\ Head(host).op = "prove"
    /\ host' = Tail(host)
    /\ Host_prove_on(Head(host),
                     prove_begin(fs, labels, Head(host).stat, Head(host).proof))
    /\ UNCHANGED <<toks, tok, label, rstack, verify, ret>>

Prove_step_on(r) ==
    /\ fs' = r.fs
    /\ labels' = r.labels
    /\ IF r.excs = {}
       THEN /\ pf' = [pf EXCEPT !.stack = r.stack, !.proof = Tail(@)]
            /\ UNCHANGED <<pc, exc>>
       ELSE /\ \E e \in r.excs :
                 /\ exc' = e
                 /\ pc' = Thrown(pf.caller, e)
            /\ UNCHANGED pf

\* one iteration of the loop of MM.prove
Prove_step ==
    /\ pc = "proving"
    /\ pf.proof # <<>>
    /\ Prove_step_on(prove_step(fs, labels, pf.stack, Head(pf.proof)))
    /\ UNCHANGED <<host, toks, tok, label, rstack, verify, ret>>

\* MM.prove returns to the host (or raises)
Prove_end_host(pe) ==
    /\ fs' = pe.fs
    /\ labels' = pe.labels
    /\ exc' = pe.exc
    /\ pc' = IF pe.exc = NoErr THEN "idle" ELSE Thrown("host", pe.exc)
    /\ ret' = IF pe.exc = NoErr THEN pe.val ELSE ret
    /\ UNCHANGED <<toks, tok, label>>

\* a faulty return to MM.verify: the theorem recorded whatever MM.prove did
Prove_end_verify_recorded(pe) ==
    /\ UNCHANGED ret
    /\ FinishP(toks, pe.fs, pe.labels, pf.stat_label, pf.stat)

\* MM.prove returns to MM.verify (or raises): the comparison of MM.verify, then
\* the rest of the '$p' branch of MM.read
Prove_end_verify(pe) ==
    /\ UNCHANGED ret
    /\ IF pe.exc # NoErr
       THEN Raise(toks, pe.exc) /\ fs' = pe.fs /\ labels' = pe.labels /\ UNCHANGED label
       ELSE IF verify_end(pf.stat, pe.val) # NoErr
       THEN Raise(toks, verify_end(pf.stat, pe.val))
            /\ fs' = pe.fs /\ labels' = pe.labels /\ UNCHANGED label
       ELSE FinishP(toks, pe.fs, pe.labels, pf.stat_label, pf.stat)

\* the end of MM.prove, after its loop
Prove_end ==
    /\ pc = "proving"
    /\ pf.proof = <<>>
    /\ IF pf.caller = "host"
       THEN Prove_end_host(prove_end(fs, labels, pf.stack))
       ELSE Prove_end_verify(prove_end(fs, labels, pf.stack))
    /\ UNCHANGED <<host, rstack, verify, pf>>

-----------------------------------------------------------------------------
(* The hosts: what is consumed and what is asked to be proved *)

MaxProofLen == 3

\* all sequences over S of length at most n
SeqsUpTo(S, n) == UNION {[1..k -> S] : k \in 0..n}

ConsumeCall(src, v) ==
    [op |-> "consume", src |-> src, verify |-> v, stat_label |-> None,
     stat |-> <<>>, proof |-> <<>>]

ProveCall(lbl, stat, proof) ==
    [op |-> "prove", src |-> <<>>, verify |-> TRUE, stat_label |-> lbl,
     stat |-> stat, proof |-> proof]

\* a database: two floating hypotheses, an axiom without hypotheses, and in
\* a scope of its own an axiom with an essential hypothesis and a $d
Decls ==
    << <<"$c", "wff", "|-", "$.">>,
       <<"$v", "p", "q", "$.">>,
       <<"wp", "$f", "wff", "p", "$.">>,
       <<"wq", "$f", "wff", "q", "$.">>,
       <<"w2", "$a", "wff", "p", "q", "$.">>,
       <<"${">>,
       <<"h", "$e", "|-", "p", "$.">>,
       <<"$d", "p", "q", "$.">>,
       <<"mp", "$a", "|-", "q", "$.">>,
       <<"$}">> >>

\* the line `th $p stat $= proof $.`
Theorem(lbl, stat, proof) == <<lbl, "$p">> \o stat \o <<"$=">> \o proof \o <<"$.">>

ProofLabels == {"wp", "wq", "w2", "zz"}

\* the database followed by a theorem with any short proof
PlainProofHosts ==
    {<<ConsumeCall(Append(Decls, Theorem("th", stat, proof)), TRUE)>> :
        stat \in {<<"wff", "p", "q">>, <<"wff", "q">>},
        proof \in SeqsUpTo(ProofLabels, MaxProofLen)}

\* the database with a theorem inside the inner scope, or after it with a $d
\* of the outer scope before it; the proofs cite the axiom mp
ScopedProofs ==
    {<<a, b, "h", "mp">> : a, b \in {"wp", "wq"}} \cup {<<"h">>, <<"wp", "wq", "mp">>}

ScopedProofHosts ==
    {<<ConsumeCall(SubSeq(Decls, 1, 9) \o <<Theorem("th", stat, proof), <<"$}">>>>, v)>> :
        stat \in {<<"|-", "q">>, <<"|-", "p">>}, proof \in ScopedProofs, v \in BOOLEAN}
    \cup
    {<<ConsumeCall(Decls \o <<d, Theorem("th", <<"|-", "q">>, proof)>>, TRUE)>> :
        d \in {<<"$d", "p", "q", "$.">>, <<"$d", "p", "$.">>}, proof \in ScopedProofs}

\* the database with a theorem whose proof is compressed
MaxLetters == 3

Letters == {"A", "B", "C", "D", "Z", "U", "?"}

CompressedProofs ==
    {<<"(", "w2", ")">> \o ls : ls \in SeqsUpTo(Letters, MaxLetters)}
    \cup {<<"(", "w2">>, <<"(", "w2", "A", "B", "C">>, <<"(", "zz", ")", "A", "C">>,
          <<"(", "wp", "w2", ")", "A", "B", "D">>,
          <<"(", "w2", ")", "A", "?", "B", "C">>, <<"(", "w2", ")", "A", "BZ", "UA", "C">>}

CompressedProofHosts ==
    {<<ConsumeCall(Append(Decls, Theorem("th", stat, proof)), TRUE)>> :
        stat \in {<<"wff", "p", "q">>, <<"wff", "p", "p">>}, proof \in CompressedProofs}
    \cup
    {<<ConsumeCall(Append(Decls, Theorem("th", <<"wff", "p", "q", "p", "q">>, proof)), TRUE)>> :
        proof \in {<<"(", "w2", ")", "A", "B", "C", "Z", "D", "C">>,
                   <<"(", "w2", ")", "A", "B", "C", "Z", "D", "Z", "E", "C">>,
                   <<"(", "w2", ")", "A", "B", "C", "D", "C">>}}

\* two declarations followed by any few lines of these
MaxStmts == 3

StmtLines ==
    {<<"wp", "$f", "wff", "p", "$.">>,
     <<"wp", "$f", "wff", "q", "$.">>,
     <<"wp", "$a", "wff", "p", "$.">>,
     <<"wp">>,
     <<"$c", "r", "$.">>,
     <<"$v", "r", "$.">>,
     <<"${">>,
     <<"$}">>,
     <<"$x">>,
     <<"th", "$p", "wff", "p", "$=", "wp", "$.">>}

DeclHosts ==
    {<<ConsumeCall(SubSeq(Decls, 1, 2) \o lines, TRUE)>> :
        lines \in SeqsUpTo(StmtLines, MaxStmts)}

\* sources whose label is followed by something that takes no label, that end
\* early, or that give a variable a floating hypothesis in two scopes
PickedHosts ==
    {<<ConsumeCall(SubSeq(Decls, 1, 2) \o lines, TRUE)>> :
        lines \in {<< <<"wp", "$d", "p", "q", "$.">>, <<"$f", "wff", "p", "$.">> >>,
                   << <<"wp", "$v", "r", "$.", "$f", "wff", "r", "$.">> >>,
                   << <<"wp", "$c", "r", "$.", "$e", "r", "$.">> >>,
                   << <<"$f", "wff", "p", "$.">> >>,
                   << <<"wp", "$f", "wff", "$.">> >>,
                   << <<"wp", "$f", "wff", "r", "$.">> >>,
                   << <<"wp", "$f", "r", "p", "$.">> >>,
                   << <<"wp", "$f", "wff", "p">> >>,
                   << <<"th", "$p", "wff", "p", "$.">> >>,
                   << <<"$p", "wff", "p", "$=", "$.">> >>,
                   << <<"$a", "wff", "p", "$.">> >>,
                   << <<"$e", "wff", "p", "$.">> >>,
                   << <<"${", "wp", "$f", "wff", "p", "$.">>, <<"wq", "$f", "wff", "q", "$.">> >>,
                   << <<"$(", "wp", "$f", "wff", "p", "$.">> >>,
                   << <<"th", "$p", "wff", "p", "$=", "$.">> >>,
                   << <<"wp", "$f", "wff", "p", "$.">>, <<"${">>, <<"vp", "$f", "|-", "p", "$.">>,
                      <<"ax", "$a", "wff", "p", "$.">>, <<"$}">> >>,
                   << <<"wp", "$f", "wff", "p", "$.">>, <<"${">>, <<"wq", "$f", "wff", "q", "$.">>,
                      <<"vp", "$f", "|-", "p", "$.">>, <<"h", "$e", "|-", "q", "$.">>,
                      <<"ax", "$a", "wff", "p", "$.">>, <<"$}">> >>}}

\* sources that include files
MaxIncludes == 3

IncludeLines ==
    {<<"$[", "a.mm", "$]">>,
     <<"$[", "./a.mm", "$]">>,
     <<"$[", "b.mm", "$]", "$v", "r", "$.">>,
     <<"$[", "c.mm", "$]">>,
     <<"$[", "d.mm", "$]">>,
     <<"$[", "a.mm">>,
     <<"$[">>,
     <<"$(", "$[", "c.mm", "$]", "$)">>}

IncludeHosts ==
    {<<ConsumeCall(lines, TRUE)>> : lines \in SeqsUpTo(IncludeLines, MaxIncludes)}

\* the database consumed with or without verification, then a proof asked
\* of MM.prove, with or without an expected statement
ProveHosts ==
    {<<ConsumeCall(Decls, v), ProveCall("x", stat, proof)>> :
        v \in BOOLEAN,
        stat \in {NoStat, <<"wff", "p", "q">>, <<"wff", "q", "p">>},
        proof \in SeqsUpTo(ProofLabels, MaxProofLen)
                    \cup {<<"(", "w2", ")", "A", "B", "C">>, <<"wp", "wq", "h", "mp">>}}

Hosts ==
    PlainProofHosts \cup ScopedProofHosts \cup CompressedProofHosts \cup DeclHosts
    \cup PickedHosts \cup IncludeHosts \cup ProveHosts

-----------------------------------------------------------------------------

Init ==
    /\ host \in Hosts
    /\ pc = "idle"
    /\ toks = toks_init(<<>>)
    /\ tok = None
    /\ label = None
    /\ rstack = <<>>
    /\ verify = TRUE
    /\ fs = <<>>
    /\ labels = <<>>
    /\ pf = NoProof
    /\ ret = NoStat
    /\ exc = NoErr

Next ==
    \/ Consume
    \/ Read_c
    \/ Read_v
    \/ Read_f
    \/ Read_a
    \/ Read_e
    \/ Read_p
    \/ Read_d
    \/ Read_open
    \/ Read_label
    \/ Read_other
    \/ Read_return
    \/ Host_prove
    \/ Prove_step
    \/ Prove_end

Spec == Init /\ [][Next]_vars

-----------------------------------------------------------------------------
(* The properties *)

\* the invocation of MM.prove in pf has returned to the host that called it
ProveReturned == pf.caller = "host" /\ pc = "idle" /\ exc = NoErr

\* C1: when a $p statement ingested with verification is accepted (its label
\* is recorded, which clears the pending label), the stack of the proof
\* checker after the last step holds exactly one expression, the statement's
\* conclusion token for token.
C1_AcceptedProofDerivesConclusion ==
    [][(pc = "proving" /\ pf.caller = "verify" /\ pf.proof = <<>> /\ label' = None)
        => (Len(pf.stack) = 1 /\ pf.stack[1] = pf.stat)]_vars

\* a theorem of several steps has been verified and recorded
C1_Witness ==
    /\ pf.caller = "verify"
    /\ pc = "reading"
    /\ label = None
    /\ Len(pf.tokens) >= 3
    /\ pf.stat_label \in DOMAIN labels
    /\ labels[pf.stat_label] = Entry("$p", labels[pf.stat_label].dat)
    /\ labels[pf.stat_label].dat.stat = pf.stat

\* C2: a recorded label is never redefined: whatever is declared later, the
\* label table keeps the entry first recorded under each label.
C2_LabelsWriteOnce ==
    [][\A l \in DOMAIN labels : l \in DOMAIN labels' /\ labels'[l] = labels[l]]_vars

C4_UnknownLabelIsMMError ==
    [][(pc = "proving" /\ pf.proof # <<>> /\ Head(pf.proof) \notin DOMAIN labels)
        => (pc' # "proving" /\ IsMMError(exc'))]_vars

\* C5: the proof checker rejects a proof of no steps with the error it raises
\* when the stack does not hold one entry at the end.
C5_EmptyProofIsStackMismatch ==
    (pf.caller # "none" /\ pf.tokens = <<>>)
        => (pc # "proving" /\ exc = MMError("stack has >1 entry at end"))

\* C6: a pending label is consumed by the very next statement: when the
\* driver holds a label and the token at statement position is not $f, $e, $a
\* or $p (another label, $c, $v, $d, ${, $} or the end of the stream), reading
\* fails with an MMError.
C6_PendingLabelConsumedByNext ==
    [][(pc = "reading" /\ label # None /\ tok \notin {"$f", "$e", "$a", "$p"})
        => (pc' = "error" /\ IsMMError(exc'))]_vars

\* C7: a token at statement position that begins with '$' and is none of the
\* directives makes reading fail with an MMError; it is never skipped.
C7_UnknownDirectiveFails ==
    [][(pc = "reading"
        /\ tok \in Dollar \ {"$c", "$v", "$d", "$f", "$e", "$a", "$p", "${", "$}"})
        => (pc' = "error" /\ IsMMError(exc'))]_vars

\* the characters of the letter part of a compressed proof
C8_Letters(proof) ==
    Concat([i \in 1..(Len(proof) - Index(proof, ")")) |->
              chars(proof[Index(proof, ")") + i])])

\* the integers the letter part stands for, -1 for each 'Z'
C8_Ints(proof) == proof_ints_loop(C8_Letters(proof), 0, <<>>)

\* a back-reference of the proof names a subproof no earlier 'Z' has recorded,
\* label_end being the number of mandatory hypotheses of stat in the frame
\* stack s plus the number of labels between the parentheses
C8_BadReference(s, stat, proof) ==
    /\ make_assertion(s, stat).exc = NoErr
    /\ LET ma == make_assertion(s, stat).val
           ints == C8_Ints(proof)
           label_end == Len(ma.f_hyps) + Len(ma.e_hyps) + Index(proof, ")") - 2
       IN  \E i \in 1..Len(ints) :
               /\ ints[i] >= label_end
               /\ ints[i] - label_end >= Cardinality({j \in 1..(i - 1) : ints[j] = -1})

C8_Malformed(s, stat, proof) ==
    \/ ")" \notin Range(proof)
    \/ \E ch \in Range(C8_Letters(proof)) :
           ch \notin Range(LowDigits) \cup Range(HighDigits) \cup {"Z"}
    \/ C8_Ints(proof) # <<>> /\ C8_Ints(proof)[1] = -1
    \/ C8_BadReference(s, stat, proof)

\* C8: MM.prove called with a compressed proof that has no ')', a character
\* outside A..Z, a 'Z' before any step, or a back-reference to a subproof that
\* was not recorded, ends at once with an MMError.
C8_MalformedCompressedIsMMError ==
    [][(/\ pc \in {"reading", "idle"}
        /\ pf' # pf
        /\ pf'.tokens # <<>>
        /\ pf'.tokens[1] = "("
        /\ C8_Malformed(fs, pf'.stat, pf'.tokens))
        => (pc' # "proving" /\ IsMMError(exc'))]_vars

\* the tokens that only one file holds
FileMarks == {"A.", "B.", "C."}

\* MM.read has returned to MM.consume on the end of the stream
ReadToEnd == pc = "idle" /\ toks # toks_init(<<>>) /\ tok = None

\* what has been opened was opened once, and its tokens were delivered once
IncludedOnce ==
    /\ \A i, j \in 1..Len(toks.opened) : toks.opened[i] = toks.opened[j] => i = j
    /\ \A m \in FileMarks :
           Cardinality({i \in 1..Len(toks.delivered) : toks.delivered[i] = m}) <= 1
    /\ Len(toks.lines_buf) <= 1 + Cardinality(DOMAIN Files)

\* C9: over the life of a token stream each canonical file is opened and
\* pushed at most once and a later inclusion of it opens nothing and delivers
\* none of its tokens, so the stack of sources stays as small as the files are
\* few; and when the reading has come to the end of the stream, every source
\* has been read out and closed.
C9_IncludeOnce ==
    /\ IncludedOnce
    /\ ReadToEnd => (toks.lines_buf = <<>> /\ toks.tokbuf = <<>>)

\* a source that includes a file three times under two spellings has been
\* read to its end, the file and the one it includes opened once each
C9_Witness ==
    /\ pc = "idle"
    /\ host = <<>>
    /\ toks.lines_buf = <<>>
    /\ toks.opened = <<"a.mm", "b.mm">>
    /\ Cardinality({i \in 1..Len(toks.delivered) : toks.delivered[i] = "a.mm"}) >= 2
    /\ \E i \in 1..Len(toks.delivered) : toks.delivered[i] = "./a.mm"

\* the label table but for the entry under lbl
Others(tbl, lbl) == [l \in DOMAIN tbl \ {lbl} |-> tbl[l]]

\* C10: an invocation of MM.prove, from its call through each of its steps to
\* its return or its exception, leaves the frame stack and the label table as
\* they were; when MM.read then records the verified theorem, that one entry
\* is all that changes.
C10_ProveLeavesDatabase ==
    [][/\ (pc = "reading" /\ tok = "$p" /\ verify) => (fs' = fs /\ labels' = labels)
       /\ (pc = "idle" /\ host # <<>> /\ Head(host).op = "prove")
              => (fs' = fs /\ labels' = labels)
       /\ (pc = "proving" /\ pf.proof # <<>>) => (fs' = fs /\ labels' = labels)
       /\ (pc = "proving" /\ pf.proof = <<>>)
              => /\ fs' = fs
                 /\ Others(labels', pf.stat_label) = Others(labels, pf.stat_label)
                 /\ label' = label => labels' = labels]_vars

\* a compressed proof given inside a scope with an essential hypothesis and a
\* $d has been decompressed and walked to its end
C10_Witness ==
    /\ pf.caller # "none"
    /\ pf.tokens # <<>>
    /\ pf.tokens[1] = "("
    /\ pf.proof = <<>>
    /\ pc # "proving"
    /\ Len(pf.stack) = 1

\* the tokens ts were delivered one after the other
Delivered(ts) ==
    \E i \in 0..(Len(toks.delivered) - Len(ts)) :
        \A j \in 1..Len(ts) : toks.delivered[i + j] = ts[j]

\* the conclusion of the $p statement MM.read is about to read: the tokens
\* before '$='
C11_Conclusion ==
    SubSeq(readstat(toks).val, 1, Index(readstat(toks).val, "$=") - 1)

\* C11: without verification a $p statement with a pending label and a '$='
\* is recorded at once as a theorem with the assertion of its conclusion in
\* the frame stack, and MM.prove is not called; with verification the entry
\* recorded on acceptance is that same assertion of the conclusion.
C11_UnverifiedRecordsSameEntry ==
    [][/\ (/\ pc = "reading" /\ tok = "$p" /\ ~verify /\ label # None
           /\ readstat(toks).exc = NoErr
           /\ Index(readstat(toks).val, "$=") > 0)
          => /\ pf' = pf
             /\ pc' # "proving"
             /\ label' = None
             /\ label \in DOMAIN labels'
             /\ labels'[label] = Entry("$p", make_assertion(fs, C11_Conclusion).val)
       /\ (pc = "proving" /\ pf.caller = "verify" /\ pf.proof = <<>> /\ label' = None)
          => /\ pf.stat_label \in DOMAIN labels'
             /\ labels'[pf.stat_label] = Entry("$p", make_assertion(fs, pf.stat).val)]_vars

\* a theorem whose proof derives another statement has been recorded without
\* verification, with the hypothesis and the $d of its scope in its entry
C11_Witness ==
    /\ ~verify
    /\ pf.caller = "none"
    /\ Delivered(<<"th", "$p", "|-", "q", "$=", "h", "$.">>)
    /\ "th" \in DOMAIN labels
    /\ labels["th"] = Entry("$p", [dvs |-> {<<"p", "q">>},
                                    f_hyps |-> <<<<"wff", "p">>, <<"wff", "q">>>>,
                                    e_hyps |-> <<<<"|-", "p">>>>,
                                    stat |-> <<"|-", "q">>])

\* the tokens a $c or $v statement of the sources may declare
C12_Tokens == {"wff", "|-", "p", "q", "r"}

\* C12: every frame of the frame stack keeps its constants apart from its
\* variables, whatever was declared, pushed and popped; and add_c and add_v of
\* a token that is a constant or a variable of the top frame raise an MMError
\* and leave the frame stack as it was.
C12_ConstsAndVarsDisjoint ==
    /\ \A i \in 1..Len(fs) : fs[i].c \cap fs[i].v = {}
    /\ fs # <<>> =>
          \A t \in C12_Tokens :
              t \in Last(fs).c \cup Last(fs).v
                  => /\ IsMMError(add_c(fs, t).exc) /\ add_c(fs, t).fs = fs
                     /\ IsMMError(add_v(fs, t).exc) /\ add_v(fs, t).fs = fs

\* in an inner scope a $v of a token that the scope has as a constant failed
C12_Witness ==
    /\ pc = "error"
    /\ exc = MMError("var already defined as const in scope")
    /\ Len(fs) = 2
    /\ "r" \in fs[2].c
    /\ "r" \notin fs[2].v

\* tokens of the source are still unread
Unread ==
    \/ toks.tokbuf # <<>>
    \/ \E i \in 1..Len(toks.lines_buf) :
           \E j \in 1..Len(toks.lines_buf[i]) : toks.lines_buf[i][j] # <<>>

\* C13: MM.consume returns normally only when it has read its source to the
\* end: no token is left unread when it has returned.
C13_ConsumeReadsToEnd ==
    (pc = "idle" /\ toks # toks_init(<<>>)) => ~Unread

\* the conclusions make_assertion is asked about
C14_Stats == {<<"wff", "p">>, <<"wff", "q", "p">>, <<"|-", "q">>, <<"wff", "r">>}

\* the floating hypotheses in scope, as (variable, typecode), in the order of
\* their declaration: outer frames first
C14_Floating(s) == Concat([i \in 1..Len(s) |-> s[i].f])

\* the mandatory variables of stat: the active variables in it or in an
\* essential hypothesis in scope
C14_MandVars(s, stat) ==
    {t \in Range(stat) \cup UNION {Range(e) : e \in UNION {Range(s[i].e) : i \in 1..Len(s)}} :
        \E i \in 1..Len(s) : t \in s[i].v}

\* (typecode, variable) for every one of the hypotheses fl from the k-th on
\* whose variable is in mand; with `latest`, only for those that no later
\* hypothesis of fl declares the variable of again
RECURSIVE C14_Select(_, _, _, _)
C14_Select(fl, mand, k, latest) ==
    IF k > Len(fl) THEN <<>>
    ELSE IF /\ fl[k][1] \in mand
            /\ ~latest \/ \A m \in (k + 1)..Len(fl) : fl[m][1] # fl[k][1]
         THEN <<<<fl[k][2], fl[k][1]>>>> \o C14_Select(fl, mand, k + 1, latest)
         ELSE C14_Select(fl, mand, k + 1, latest)

C15_Vars(s, e) == {t \in Range(e) : \E i \in 1..Len(s) : t \in s[i].v}

\* under subst, the variables put for x and those put for y differ and are
\* declared disjoint in some frame, for every pair (x, y) of dvs
C15_Disjoint(s, subst, dvs) ==
    \A xy \in dvs :
        \A u \in C15_Vars(s, subst[xy[1]]), v \in C15_Vars(s, subst[xy[2]]) :
            /\ u # v
            /\ \E i \in 1..Len(s) : <<u, v>> \in s[i].d \/ <<v, u>> \in s[i].d

\* the next step of the proof cites an axiom or theorem, the stack holds
\* enough entries, and those for the mandatory hypotheses have their typecodes
C15_SubstBuilt ==
    /\ pc = "proving"
    /\ pf.proof # <<>>
    /\ Head(pf.proof) \in DOMAIN labels
    /\ labels[Head(pf.proof)].typ \in {"$a", "$p"}
    /\ LET dat == labels[Head(pf.proof)].dat
           sp == Len(pf.stack) - Len(dat.f_hyps) - Len(dat.e_hyps)
       IN  /\ sp >= 0
           /\ \A i \in 1..Len(dat.f_hyps) :
                  pf.stack[sp + i] # <<>> /\ pf.stack[sp + i][1] = dat.f_hyps[i][1]

\* the substitution of that step
C15_Subst ==
    LET dat == labels[Head(pf.proof)].dat
    IN  subst_of(dat.f_hyps, pf.stack, Len(pf.stack) - Len(dat.f_hyps) - Len(dat.e_hyps))

\* C15: a step that cites an axiom or theorem is accepted only if, for every
\* pair of its disjoint-variable set, the variables substituted for the one
\* differ from those substituted for the other and each such pair is declared
\* disjoint in a frame of the frame stack; when that is not so the step fails
\* with the MMError "disjoint violation", and only then.
C15_DisjointVariablesChecked ==
    [][C15_SubstBuilt =>
        LET ok == C15_Disjoint(fs, C15_Subst, labels[Head(pf.proof)].dat.dvs)
        IN  /\ pc' = "proving" => ok
            /\ ~ok <=> (pc' # "proving" /\ exc' = MMError("disjoint violation"))]_vars

\* a proof that cites mp, whose variables p and q are to be disjoint, with p
\* put for p and q for q in a scope that declares them disjoint was accepted
C15_Witness ==
    /\ pf.tokens = <<"wp", "wq", "h", "mp">>
    /\ pf.proof = <<>>
    /\ pf.stack = <<<<"|-", "q">>>>
    /\ pc = "reading"
    /\ \E i \in 1..Len(fs) : <<"p", "q">> \in fs[i].d

\* the local list `labels` of decompress_proof: the labels of the mandatory
\* hypotheses of stat, then those between the parentheses
C16_Labels(s, stat, proof) ==
    LET ma == make_assertion(s, stat).val
    IN  [i \in 1..Len(ma.f_hyps) |-> lookup_f(s, ma.f_hyps[i][2]).val]
            \o [i \in 1..Len(ma.e_hyps) |-> lookup_e(s, ma.e_hyps[i]).val]
            \o SubSeq(proof, 2, Index(proof, ")") - 1)

\* the number of inputs of the step n of a compressed proof: none for a
\* hypothesis, the number of hypotheses for an axiom or theorem
C16_Inputs(tbl, lbls, hyp_end, n) ==
    IF n < hyp_end \/ lbls[n + 1] \notin DOMAIN tbl THEN 0
    ELSE IF tbl[lbls[n + 1]].typ \in {"$a", "$p"}
    THEN Len(tbl[lbls[n + 1]].dat.f_hyps) + Len(tbl[lbls[n + 1]].dat.e_hyps)
    ELSE 0

\* where the sub-derivation that ends at out[j] begins, `need` steps being
\* still to find: each step supplies one and asks for its inputs
RECURSIVE C16_Start(_, _, _, _, _, _)
C16_Start(tbl, lbls, hyp_end, out, j, need) ==
    IF j = 0 THEN 1
    ELSE IF need - 1 + C16_Inputs(tbl, lbls, hyp_end, out[j]) = 0 THEN j
    ELSE C16_Start(tbl, lbls, hyp_end, out, j - 1,
                   need - 1 + C16_Inputs(tbl, lbls, hyp_end, out[j]))

\* the expansion as the proof format defines it: a number below label_end is
\* a step, 'Z' (-1) records the sub-derivation of the latest step, a number n
\* from label_end on repeats the recorded sub-derivation n - label_end
RECURSIVE C16_Expand(_, _, _, _, _, _)
C16_Expand(tbl, lbls, hyp_end, ints, out, marks) ==
    IF ints = <<>> THEN out
    ELSE IF Head(ints) = -1
    THEN C16_Expand(tbl, lbls, hyp_end, Tail(ints), out,
             Append(marks, SubSeq(out, C16_Start(tbl, lbls, hyp_end, out, Len(out), 1),
                                  Len(out))))
    ELSE IF Head(ints) < Len(lbls)
    THEN C16_Expand(tbl, lbls, hyp_end, Tail(ints), Append(out, Head(ints)), marks)
    ELSE IF Head(ints) - Len(lbls) < Len(marks)
    THEN C16_Expand(tbl, lbls, hyp_end, Tail(ints),
                    out \o marks[Head(ints) - Len(lbls) + 1], marks)
    ELSE C16_Expand(tbl, lbls, hyp_end, Tail(ints), out, marks)

\* the label sequence the compressed proof stands for
C16_Expansion(s, tbl, stat, proof) ==
    LET lbls == C16_Labels(s, stat, proof)
        ma == make_assertion(s, stat).val
        out == C16_Expand(tbl, lbls, Len(ma.f_hyps) + Len(ma.e_hyps), C8_Ints(proof),
                          <<>>, <<>>)
    IN  [i \in 1..Len(out) |-> lbls[out[i] + 1]]

\* C16: the label sequence decompress_proof returns is the expansion of the
\* compressed proof in which each 'Z' records the whole sub-derivation of the
\* latest step (the sub-derivations of its inputs in order, then its own
\* label) and each number from label_end on repeats a recorded one verbatim.
C16_DecompressionExpandsSubproofs ==
    [][(/\ pc \in {"reading", "idle"}
        /\ pf' # pf
        /\ pf'.tokens # <<>>
        /\ pf'.tokens[1] = "("
        /\ pc' = "proving")
        => pf'.proof = C16_Expansion(fs, labels, pf'.stat, pf'.tokens)]_vars

\* a proof that records a sub-derivation of three labels, repeats it, records
\* the repetition and repeats that has been decompressed
C16_Witness ==
    /\ pc = "proving"
    /\ pf.tokens = <<"(", "w2", ")", "A", "B", "C", "Z", "D", "Z", "E", "C">>
    /\ pf.stack = <<>>
    /\ pf.proof = <<"wp", "wq", "w2", "wp", "wq", "w2", "wp", "wq", "w2", "w2">>

\* the next step of the proof cites an axiom or theorem
C17_CitesAssertion ==
    /\ pc = "proving"
    /\ pf.proof # <<>>
    /\ Head(pf.proof) \in DOMAIN labels
    /\ labels[Head(pf.proof)].typ \in {"$a", "$p"}

\* the number of inputs of the assertion the next step cites
C17_Inputs ==
    Len(labels[Head(pf.proof)].dat.f_hyps) + Len(labels[Head(pf.proof)].dat.e_hyps)

\* stat with, for each variable of the mandatory hypotheses mand, the stack
\* entry put for it, less its typecode, in the variable's place; the entries
\* for mand are those from base + 1 on
RECURSIVE C17_Substituted(_, _, _, _)
C17_Substituted(stat, mand, stack, base) ==
    IF stat = <<>> THEN <<>>
    ELSE (IF \E i \in 1..Len(mand) : mand[i][2] = Head(stat)
          THEN Tail(stack[base + (CHOOSE i \in 1..Len(mand) : mand[i][2] = Head(stat))])
          ELSE <<Head(stat)>>)
         \o C17_Substituted(Tail(stat), mand, stack, base)

\* C17: a step that cites an axiom or theorem of n inputs fails with the
\* MMError "stack underflow" when the stack holds fewer than n entries; when
\* the step succeeds, the top n entries are gone, the conclusion with the
\* substitution applied is pushed and the entries below are as they were.
C17_StepPopsInputsPushesConclusion ==
    [][C17_CitesAssertion =>
        LET n == C17_Inputs
            below == Len(pf.stack) - n
        IN  /\ below < 0 => (pc' # "proving" /\ exc' = MMError("stack underflow"))
            /\ pc' = "proving" =>
                  /\ below >= 0
                  /\ Len(pf'.stack) = below + 1
                  /\ SubSeq(pf'.stack, 1, below) = SubSeq(pf.stack, 1, below)
                  /\ pf'.stack[below + 1]
                        = C17_Substituted(labels[Head(pf.proof)].dat.stat,
                                          labels[Head(pf.proof)].dat.f_hyps,
                                          pf.stack, below)]_vars

\* w2 has taken the two entries on top of a third and pushed its conclusion
C17_Witness ==
    /\ pc = "proving"
    /\ pf.proof = <<"w2">>
    /\ pf.stack = <<<<"wff", "p", "q">>, <<"wff", "p", "q">>>>

\* no sources remain in the token stream
C18_NoSources == toks.lines_buf = <<>> /\ toks.tokbuf = <<>>

\* C18: once no sources remain every read of the token stream signals the end
\* of the stream, so that MM.read, reading on at or past the end of its
\* source (inside an unclosed '${', inside an unterminated '$(' ), goes on or
\* fails with an MMError, never with an exception of another kind.
C18_ReadsPastEndSignalEnd ==
    [][(/\ pc \in {"idle", "reading"}
        /\ toks' # toks \/ pc = "reading"
        /\ C18_NoSources'
        /\ pc' = "error") => IsMMError(exc')]_vars

\* the tokens of the source `rest` in textual order, the contents of each file
\* put in the place of the first '$[ file $]' outside a comment that names it;
\* imported are the files put in place so far
RECURSIVE C19_Textual(_, _, _)
C19_Textual(rest, imported, incomment) ==
    IF rest = <<>> THEN <<>>
    ELSE IF incomment
    THEN <<Head(rest)>> \o C19_Textual(Tail(rest), imported, Head(rest) # "$)")
    ELSE IF Head(rest) = "$("
    THEN <<"$(">> \o C19_Textual(Tail(rest), imported, TRUE)
    ELSE IF Head(rest) = "$[" /\ Len(rest) >= 3 /\ rest[3] = "$]"
    THEN LET f == CanonicalPath(rest[2])
             after == SubSeq(rest, 4, Len(rest))
         IN  SubSeq(rest, 1, 3) \o
             (IF f \in imported \/ f \notin DOMAIN Files
              THEN C19_Textual(after, imported, FALSE)
              ELSE C19_Textual(Concat(Files[f]) \o after, imported \cup {f}, FALSE))
    ELSE <<Head(rest)>> \o C19_Textual(Tail(rest), imported, FALSE)

\* C19: the tokens are delivered in the textual order of the source with the
\* contents of each file put at the point of its first inclusion: every token
\* of an included file comes before any token after the '$]', those on the
\* same line too.
C19_DeliveredInTextualOrder ==
    LET textual == C19_Textual(Concat(toks.source), {}, FALSE)
    IN  /\ Len(toks.delivered) <= Len(textual)
        /\ toks.delivered = SubSeq(textual, 1, Len(toks.delivered))

\* the '$f' or '$e' label l is in force: a frame of the frame stack holds it
C20_InForce(l) ==
    \E i \in 1..Len(fs) :
        \/ \E k \in DOMAIN fs[i].f_labels : fs[i].f_labels[k] = l
        \/ \E k \in DOMAIN fs[i].e_labels : fs[i].e_labels[k] = l

\* the '$f' and '$e' labels that the proof in pf cites
C20_CitedHyps ==
    {l \in Range(pf.tokens) \cap DOMAIN labels : labels[l].typ \in {"$f", "$e"}}

\* the step accepts the proof in pf: the theorem is recorded, or MM.prove
\* returns to the host
C20_Accepts ==
    /\ pc = "proving"
    /\ pf.proof = <<>>
    /\ \/ pf.caller = "verify" /\ label' = None
       \/ pf.caller = "host" /\ pc' = "idle" /\ exc' = NoErr

\* C20: a proof is accepted only if every '$f' or '$e' label it cites is in
\* force in the frame stack: one whose scope was closed by '$}' is not cited
\* by an accepted proof.
C20_AcceptedProofCitesHypsInForce ==
    [][C20_Accepts => \A l \in C20_CitedHyps : C20_InForce(l)]_vars

\* MM.verify is at the end of the proof of the '$p' statement in pf
C21_AtEnd == pc = "proving" /\ pf.caller = "verify" /\ pf.proof = <<>>

\* the proof in pf has derived the statement and nothing else
C21_Derived == pf.stack = <<pf.stat>>

\* the step records a theorem under the label l
C21_Records(l) ==
    /\ l \in DOMAIN labels'
    /\ labels'[l].typ = "$p"
    /\ l \notin DOMAIN labels \/ labels[l] # labels'[l]

\* C21: with verification, a '$p' statement whose proof check fails leaves the
\* label table as it was and its error leaves MM.consume, the rest of the
\* source unread; a theorem is recorded only by the step that ends a proof
\* which derived the statement, under that statement's label.
C21_FailedProofRecordsNothing ==
    [][verify =>
        /\ (pc = "reading" /\ tok = "$p" /\ pc' = "error")
              => (labels' = labels /\ exc' # NoErr)
        /\ (pc = "proving" /\ pf.caller = "verify" /\ pf.proof # <<>> /\ pc' = "error")
              => (labels' = labels /\ exc' # NoErr /\ toks' = toks)
        /\ (C21_AtEnd /\ ~C21_Derived)
              => (/\ pc' = "error"
                  /\ labels' = labels
                  /\ toks' = toks
                  /\ label' = label
                  /\ exc' = IF Len(pf.stack) = 1
                            THEN MMError("assertion proved doesn't match")
                            ELSE MMError("stack has >1 entry at end"))
        /\ \A l \in DOMAIN labels' :
              C21_Records(l)
                  => (/\ C21_AtEnd
                      /\ C21_Derived
                      /\ l = pf.stat_label
                      /\ labels'[l].dat.stat = pf.stat)]_vars

\* a proof that derived another statement has failed: the theorem is not in
\* the label table and the rest of the source is unread
C21_Witness ==
    /\ pc = "error"
    /\ verify
    /\ pf.caller = "verify"
    /\ pf.proof = <<>>
    /\ Len(pf.stack) = 1
    /\ pf.stack[1] # pf.stat
    /\ exc = MMError("assertion proved doesn't match")
    /\ pf.stat_label \notin DOMAIN labels
    /\ toks.lines_buf # <<>>
    /\ Last(toks.lines_buf) # <<>>

=============================================================================
